---- MODULE Spec2Model ----
(***************************************************************************)
(* Model of PaperSelector (src/src/selection.py): cosine-similarity        *)
(* scoring, threshold policies, selection mask and distribution            *)
(* statistics.                                                             *)
(*                                                                         *)
(* The selector works on numpy floating-point arrays.  Floating-point      *)
(* numbers are modelled as binary floating-point values with a mantissa of *)
(* Precision bits, rounded to nearest, ties to even, after every           *)
(* arithmetic operation (IEEE 754 semantics at a reduced mantissa width;   *)
(* the exponent range is not limited).  A value is the pair <<m, e>>       *)
(* standing for m * 2^e, with m = 0 and e = 0, or                          *)
(* 2^(Precision-1) <= |m| < 2^Precision.                                   *)
(***************************************************************************)
EXTENDS Integers, Sequences, FiniteSets, TLC

VARIABLES
    similarities,   \* self.similarities: None, or the score vector
    threshold,      \* self.threshold: None, or the current threshold
    call,           \* the latest call: name, arguments, return value, error
    setter          \* history: None, or the <<name, method, argument>> of the
                    \* latest call that assigned self.threshold

vars == <<similarities, threshold, call, setter>>

---------------------------------------------------------------------------
(* Bounds of the model *)

\* mantissa width of the modelled floating-point format (float64 has 53)
Precision == 11
\* longest score vector drawn, besides the named scenario vectors
MaxScores == 2

---------------------------------------------------------------------------
(* Optional values: Python's None and a present value *)

None == <<>>
Some(x) == <<x>>
Val(o) == o[1]

---------------------------------------------------------------------------
(* Floating-point arithmetic *)

Abs(x) == IF x < 0 THEN -x ELSE x
Sgn(x) == IF x < 0 THEN -1 ELSE IF x = 0 THEN 0 ELSE 1

RECURSIVE BitLen(_)
BitLen(n) == IF n = 0 THEN 0 ELSE 1 + BitLen(n \div 2)

Zero == <<0, 0>>

\* n >= 0 shifted right by k >= 1 bits, rounded to nearest, ties to even
RoundShift(n, k) ==
    LET q == n \div (2 ^ k)
        r == n % (2 ^ k)
        half == 2 ^ (k - 1)
    IN  IF r > half \/ (r = half /\ q % 2 = 1) THEN q + 1 ELSE q

\* the floating-point value nearest to n * 2^e
Fl(n, e) ==
    IF n = 0 THEN Zero
    ELSE LET a == Abs(n)
             len == BitLen(a)
         IN  IF len <= Precision
             THEN <<n * (2 ^ (Precision - len)), e - (Precision - len)>>
             ELSE LET k == len - Precision
                      q == RoundShift(a, k)
                  IN  IF q = 2 ^ Precision
                      THEN <<Sgn(n) * (2 ^ (Precision - 1)), e + k + 1>>
                      ELSE <<Sgn(n) * q, e + k>>

FNeg(a) == <<-a[1], a[2]>>

FAdd(a, b) ==
    IF a[1] = 0 THEN b
    ELSE IF b[1] = 0 THEN a
    ELSE LET hi == IF a[2] >= b[2] THEN a ELSE b
             lo == IF a[2] >= b[2] THEN b ELSE a
             d == hi[2] - lo[2]
         IN  IF d > Precision + 2 THEN hi
             ELSE Fl(hi[1] * (2 ^ d) + lo[1], lo[2])

FSub(a, b) == FAdd(a, FNeg(b))

FMul(a, b) == Fl(a[1] * b[1], a[2] + b[2])

\* b is not zero
FDiv(a, b) ==
    IF a[1] = 0 THEN Zero
    ELSE LET k == Precision + 2
             num == Abs(a[1]) * (2 ^ k)
             q == num \div Abs(b[1])
             r == num % Abs(b[1])
             n == 2 * q + (IF r = 0 THEN 0 ELSE 1)
         IN  Fl(Sgn(a[1]) * Sgn(b[1]) * n, a[2] - b[2] - k - 1)

RECURSIVE IsqrtIter(_, _, _)
\* the largest s in lo..hi with s * s <= n, given lo * lo <= n
IsqrtIter(n, lo, hi) ==
    IF lo = hi THEN lo
    ELSE LET mid == (lo + hi + 1) \div 2
         IN  IF mid * mid <= n THEN IsqrtIter(n, mid, hi)
             ELSE IsqrtIter(n, lo, mid - 1)

Isqrt(n) == IsqrtIter(n, 0, 2 ^ ((BitLen(n) + 1) \div 2))

\* a is not negative
FSqrt(a) ==
    IF a[1] = 0 THEN Zero
    ELSE LET k == IF (a[2] - (Precision + 3)) % 2 = 0
                  THEN Precision + 3 ELSE Precision + 4
             n == a[1] * (2 ^ k)
             s == Isqrt(n)
             t == 2 * s + (IF s * s = n THEN 0 ELSE 1)
         IN  Fl(t, ((a[2] - k) \div 2) - 1)

FGe(a, b) == FSub(a, b)[1] >= 0
FLe(a, b) == FGe(b, a)
FLt(a, b) == ~FGe(a, b)

\* the floating-point value nearest to the ratio n / d of two integers, d > 0
\* (a decimal literal, or the true division of two exact integers)
FRatio(n, d) ==
    IF n = 0 THEN Zero
    ELSE LET k == Precision + 2 + BitLen(d)
             num == Abs(n) * (2 ^ k)
             q == num \div d
             r == num % d
         IN  Fl(Sgn(n) * (2 * q + (IF r = 0 THEN 0 ELSE 1)), -k - 1)

FInt(n) == FRatio(n, 1)

\* the integer part of a floating-point value that is not negative
FFloor(a) ==
    IF a[2] >= 0 THEN a[1] * (2 ^ a[2])
    ELSE IF -a[2] > Precision THEN 0
    ELSE a[1] \div (2 ^ (-a[2]))

---------------------------------------------------------------------------
(* The numpy reductions the selector calls, on a sequence of floats *)

RECURSIVE SumFrom(_, _, _)
\* acc + xs[i] + ... + xs[Len(xs)], added left to right
SumFrom(xs, i, acc) ==
    IF i > Len(xs) THEN acc ELSE SumFrom(xs, i + 1, FAdd(acc, xs[i]))

Sum(xs) == SumFrom(xs, 1, Zero)

\* np.mean: the sum divided by the number of values
Mean(xs) == FDiv(Sum(xs), FInt(Len(xs)))

\* np.std with ddof = 0: the root of the mean squared deviation from the mean
Std(xs) ==
    LET arrmean == Mean(xs)
        x == [i \in 1..Len(xs) |-> FSub(xs[i], arrmean)]
        xx == [i \in 1..Len(xs) |-> FMul(x[i], x[i])]
    IN  FSqrt(FDiv(Sum(xx), FInt(Len(xs))))

Sorted(xs) == SortSeq(xs, FLt)

\* np.median: the middle value, or the mean of the two middle values
Median(xs) ==
    LET part == Sorted(xs)
        n == Len(xs)
        index == n \div 2
    IN  IF n % 2 = 0 THEN Mean(<<part[index], part[index + 1]>>)
        ELSE Mean(<<part[index + 1]>>)

\* Lerp with the weight applied from the wrong end
LerpSwapped(a, b, t) ==
    LET diff_b_a == FSub(b, a)
    IN  IF FGe(t, FRatio(1, 2))
        THEN FAdd(a, FMul(diff_b_a, FSub(FInt(1), t)))
        ELSE FSub(b, FMul(diff_b_a, t))

\* numpy's _lerp: a + (b - a) * t, computed from b when t >= 0.5
Lerp(a, b, t) ==
    LET diff_b_a == FSub(b, a)
    IN  IF FGe(t, FRatio(1, 2))
        THEN FSub(b, FMul(diff_b_a, FSub(FInt(1), t)))
        ELSE FAdd(a, FMul(diff_b_a, t))

\* np.percentile(xs, q), method "linear"
Percentile(xs, q) ==
    LET arr == Sorted(xs)
        n == Len(xs)
        quantile == FRatio(q, 100)
        virtual_index == FMul(FInt(n - 1), quantile)
        above == FGe(virtual_index, FInt(n - 1))
        previous_index == IF above THEN n - 1 ELSE FFloor(virtual_index)
        next_index == IF above THEN n - 1 ELSE previous_index + 1
        gamma == FSub(virtual_index, FInt(previous_index))
    IN  Lerp(arr[previous_index + 1], arr[next_index + 1], gamma)

RECURSIVE MinFrom(_, _, _)
MinFrom(xs, i, acc) ==
    IF i > Len(xs) THEN acc
    ELSE MinFrom(xs, i + 1, IF FLt(xs[i], acc) THEN xs[i] ELSE acc)

RECURSIVE MaxFrom(_, _, _)
MaxFrom(xs, i, acc) ==
    IF i > Len(xs) THEN acc
    ELSE MaxFrom(xs, i + 1, IF FLt(acc, xs[i]) THEN xs[i] ELSE acc)

Min(xs) == MinFrom(xs, 2, xs[1])
Max(xs) == MaxFrom(xs, 2, xs[1])

\* GeMask with the comparison turned round (the scores up to t are selected)
GeMaskBelow(xs, t) == [i \in 1..Len(xs) |-> FLe(xs[i], t)]

\* GeMask with the comparison made strict (a tie at t is not selected)
GeMaskStrict(xs, t) == [i \in 1..Len(xs) |-> ~FGe(t, xs[i])]

\* self.similarities >= t, elementwise
GeMask(xs, t) == [i \in 1..Len(xs) |-> FGe(xs[i], t)]

\* np.sum of a boolean array
CountTrue(mask) == Cardinality({i \in 1..Len(mask) : mask[i]})

---------------------------------------------------------------------------
(* sklearn's cosine_similarity of the rows of X with the vector y *)

RECURSIVE DotFrom(_, _, _, _)
DotFrom(v, w, i, acc) ==
    IF i > Len(v) THEN acc
    ELSE DotFrom(v, w, i + 1, FAdd(acc, FMul(v[i], w[i])))

Dot(v, w) == DotFrom(v, w, 1, Zero)

\* the Euclidean norm of a row
RowNorm(v) == FSqrt(Dot(v, v))

\* normalize(): each row divided by its norm, a zero norm replaced by 1
Normalize(v) ==
    LET norm == RowNorm(v)
        scale == IF norm = Zero THEN FInt(1) ELSE norm
    IN  [i \in 1..Len(v) |-> FDiv(v[i], scale)]

\* CosineSimilarity returning the scores ranked, highest first
CosineSimilaritySorted(X, y) ==
    LET Y_normalized == Normalize(y)
        sims == [i \in 1..Len(X) |-> Dot(Normalize(X[i]), Y_normalized)]
    IN  SortSeq(sims, LAMBDA a, b : FSub(a, b)[1] > 0)

CosineSimilarity(X, y) ==
    LET Y_normalized == Normalize(y)
    IN  [i \in 1..Len(X) |-> Dot(Normalize(X[i]), Y_normalized)]

---------------------------------------------------------------------------
(* The inputs the operations are called with *)

\* decimal literals d/10
Dec(d) == FRatio(d, 10)

\* values of the score vectors drawn for the threshold policies
ScoreValues == {Dec(-5), Dec(2), Dec(9)}

RECURSIVE SeqsUpTo(_, _)
\* the non-empty sequences over S of length at most n
SeqsUpTo(S, n) ==
    IF n = 0 THEN {}
    ELSE LET shorter == SeqsUpTo(S, n - 1)
         IN  {<<x>> : x \in S} \cup shorter
             \cup {Append(t, x) : t \in {u \in shorter : Len(u) = n - 1}, x \in S}

\* the score vectors of the two scenarios of the specification
MedianScenario == <<Dec(1), Dec(5), Dec(9), Dec(3), Dec(7)>>
ZeroVarianceScenario == <<Dec(2), Dec(2), Dec(2)>>

ScoreVectors ==
    SeqsUpTo(ScoreValues, MaxScores) \cup {MedianScenario, ZeroVarianceScenario}

\* explicit thresholds passed to select_papers and compute_threshold
ThresholdArgs == {Dec(2), Dec(5)}
OptionalThresholds == {None} \cup {Some(t) : t \in ThresholdArgs}

Methods ==
    {"mean_2std", "mean_1std", "median", "percentile_75", "percentile_90", "custom"}

\* a method name outside the recognised ones
MethodArgs == Methods \cup {"mean_3std"}

\* the (method, custom_threshold) pairs compute_threshold is called with
ThresholdCalls ==
    {<<m, None>> : m \in MethodArgs}
        \cup {<<"custom", Some(t)>> : t \in ThresholdArgs}
        \cup {<<m, Some(Dec(5))>> : m \in {"median", "mean_3std"}}

\* embeddings: matrices of one or two rows of dimension 2, with and without an
\* all-zero row, and references of dimension 2 (one all zero) and 3
Vec(ints) == [i \in 1..Len(ints) |-> FInt(ints[i])]
PaperEmbeddings ==
    {<<Vec(<<0, 0>>)>>, <<Vec(<<1, 2>>)>>,
     <<Vec(<<1, 2>>), Vec(<<0, 0>>)>>, <<Vec(<<0, 0>>), Vec(<<1, 2>>)>>,
     <<Vec(<<1, 2>>), Vec(<<2, 1>>)>>, <<Vec(<<2, 1>>), Vec(<<1, 2>>)>>}
ReferenceEmbeddings == {Vec(<<0, 0>>), Vec(<<2, 1>>), Vec(<<1, 2, 2>>)}

---------------------------------------------------------------------------
(* The selector *)

\* the messages of the ValueErrors the selector raises
MustComputeFirst == "Must compute similarities first"
CustomThresholdMissing == "custom_threshold must be provided when method='custom'"
UnknownMethod == "Unknown method"
IncompatibleDimension == "Incompatible dimension for X and Y matrices"
NoError == ""

\* the record of the latest call: its name, arguments, return value and error
Call(op, method, arg, docs, ref, ret, err) ==
    [op |-> op, method |-> method, arg |-> arg, docs |-> docs, ref |-> ref,
     ret |-> ret, err |-> err]

Raise(op, method, arg, err) ==
    /\ call' = Call(op, method, arg, <<>>, <<>>, None, err)
    /\ UNCHANGED <<similarities, threshold>>

Init ==
    /\ similarities = None
    /\ threshold = None
    /\ call = Call("__init__", "", None, <<>>, <<>>, None, NoError)
    /\ setter = None

\* compute_similarities cutting a longer reference to the documents' dimension
compute_similarities_truncating(paper_embeddings, reference_embedding) ==
    IF Len(paper_embeddings[1]) > Len(reference_embedding)
    THEN /\ call' = Call("compute_similarities", "", None, paper_embeddings,
                         reference_embedding, None, IncompatibleDimension)
         /\ UNCHANGED <<similarities, threshold>>
    ELSE LET sims == CosineSimilarity(paper_embeddings,
                         SubSeq(reference_embedding, 1, Len(paper_embeddings[1])))
         IN  /\ similarities' = Some(sims)
             /\ call' = Call("compute_similarities", "", None, paper_embeddings,
                             reference_embedding, Some(sims), NoError)
             /\ UNCHANGED threshold

\* compute_similarities discarding the current threshold with the old scores
compute_similarities_resetting(paper_embeddings, reference_embedding) ==
    IF Len(paper_embeddings[1]) # Len(reference_embedding)
    THEN /\ call' = Call("compute_similarities", "", None, paper_embeddings,
                         reference_embedding, None, IncompatibleDimension)
         /\ UNCHANGED <<similarities, threshold>>
    ELSE LET sims == CosineSimilarity(paper_embeddings, reference_embedding)
         IN  /\ similarities' = Some(sims)
             /\ call' = Call("compute_similarities", "", None, paper_embeddings,
                             reference_embedding, Some(sims), NoError)
             /\ threshold' = None

\* compute_similarities returning the scores without storing them
compute_similarities_not_stored(paper_embeddings, reference_embedding) ==
    IF Len(paper_embeddings[1]) # Len(reference_embedding)
    THEN /\ call' = Call("compute_similarities", "", None, paper_embeddings,
                         reference_embedding, None, IncompatibleDimension)
         /\ UNCHANGED <<similarities, threshold>>
    ELSE LET sims == CosineSimilarity(paper_embeddings, reference_embedding)
         IN  /\ call' = Call("compute_similarities", "", None, paper_embeddings,
                             reference_embedding, Some(sims), NoError)
             /\ UNCHANGED <<similarities, threshold>>

\* compute_similarities returning the scores it already holds
compute_similarities_cached(paper_embeddings, reference_embedding) ==
    IF Len(paper_embeddings[1]) # Len(reference_embedding)
    THEN /\ call' = Call("compute_similarities", "", None, paper_embeddings,
                         reference_embedding, None, IncompatibleDimension)
         /\ UNCHANGED <<similarities, threshold>>
    ELSE LET sims == IF similarities # None THEN Val(similarities)
                     ELSE CosineSimilarity(paper_embeddings, reference_embedding)
         IN  /\ similarities' = Some(sims)
             /\ call' = Call("compute_similarities", "", None, paper_embeddings,
                             reference_embedding, Some(sims), NoError)
             /\ UNCHANGED threshold

compute_similarities(paper_embeddings, reference_embedding) ==
    IF Len(paper_embeddings[1]) # Len(reference_embedding)
    THEN /\ call' = Call("compute_similarities", "", None, paper_embeddings,
                         reference_embedding, None, IncompatibleDimension)
         /\ UNCHANGED <<similarities, threshold>>
    ELSE LET sims == CosineSimilarity(paper_embeddings, reference_embedding)
         IN  /\ similarities' = Some(sims)
             /\ call' = Call("compute_similarities", "", None, paper_embeddings,
                             reference_embedding, Some(sims), NoError)
             /\ UNCHANGED threshold

\* PolicyThreshold with mean_2std adding the standard deviation once
PolicyThresholdOneStd(method, xs) ==
    CASE method \in {"mean_2std", "mean_1std"} -> FAdd(Mean(xs), FMul(FInt(1), Std(xs)))
      [] method = "median" -> Median(xs)
      [] method = "percentile_75" -> Percentile(xs, 75)
      [] method = "percentile_90" -> Percentile(xs, 90)

\* PolicyThreshold with the two percentile ranks exchanged
PolicyThresholdRanksExchanged(method, xs) ==
    CASE method = "mean_2std" -> FAdd(Mean(xs), FMul(FInt(2), Std(xs)))
      [] method = "mean_1std" -> FAdd(Mean(xs), FMul(FInt(1), Std(xs)))
      [] method = "median" -> Median(xs)
      [] method = "percentile_75" -> Percentile(xs, 90)
      [] method = "percentile_90" -> Percentile(xs, 75)

\* the value a recognised method other than "custom" resolves to
PolicyThreshold(method, xs) ==
    CASE method = "mean_2std" -> FAdd(Mean(xs), FMul(FInt(2), Std(xs)))
      [] method = "mean_1std" -> FAdd(Mean(xs), FMul(FInt(1), Std(xs)))
      [] method = "median" -> Median(xs)
      [] method = "percentile_75" -> Percentile(xs, 75)
      [] method = "percentile_90" -> Percentile(xs, 90)

\* the body of compute_threshold on a selector holding the scores `scores`:
\* the error it raises, or the threshold it resolves
ResolveThresholdOn(scores, method, custom_threshold) ==
    IF scores = None THEN [err |-> MustComputeFirst]
    ELSE IF method = "custom"
    THEN IF custom_threshold = None THEN [err |-> CustomThresholdMissing]
         ELSE [err |-> NoError, threshold |-> Val(custom_threshold)]
    ELSE IF method \in Methods
    THEN [err |-> NoError, threshold |-> PolicyThreshold(method, Val(scores))]
    ELSE [err |-> UnknownMethod]

\* ResolveThreshold with a missing custom value replaced by the default method
ResolveThresholdCustomDefaulted(method, custom_threshold) ==
    IF similarities = None THEN [err |-> MustComputeFirst]
    ELSE IF method = "custom" /\ custom_threshold # None
    THEN [err |-> NoError, threshold |-> Val(custom_threshold)]
    ELSE IF method \in Methods
    THEN [err |-> NoError,
          threshold |-> PolicyThreshold(IF method = "custom" THEN "mean_2std" ELSE method,
                                        Val(similarities))]
    ELSE [err |-> UnknownMethod]

\* ResolveThreshold with an unrecognised method replaced by the custom value
\* when one is given, and by the default method otherwise
ResolveThresholdUnknownDefaulted(method, custom_threshold) ==
    IF similarities = None THEN [err |-> MustComputeFirst]
    ELSE IF method = "custom" /\ custom_threshold = None
    THEN [err |-> CustomThresholdMissing]
    ELSE IF method = "custom" \/ (method \notin Methods /\ custom_threshold # None)
    THEN [err |-> NoError, threshold |-> Val(custom_threshold)]
    ELSE [err |-> NoError,
          threshold |-> PolicyThreshold(IF method \in Methods THEN method ELSE "mean_2std",
                                        Val(similarities))]

\* the outcome of compute_threshold: the new threshold, or the error raised
ResolveThreshold(method, custom_threshold) ==
    ResolveThresholdOn(similarities, method, custom_threshold)

\* compute_threshold sorting the stored scores in place
compute_threshold_sorting(method, custom_threshold) ==
    LET r == ResolveThreshold(method, custom_threshold)
    IN  IF r.err # NoError
        THEN Raise("compute_threshold", method, custom_threshold, r.err)
        ELSE /\ threshold' = Some(r.threshold)
             /\ call' = Call("compute_threshold", method, custom_threshold, <<>>, <<>>,
                             Some(r.threshold), NoError)
             /\ similarities' = Some(Sorted(Val(similarities)))

compute_threshold(method, custom_threshold) ==
    LET r == ResolveThreshold(method, custom_threshold)
    IN  IF r.err # NoError
        THEN Raise("compute_threshold", method, custom_threshold, r.err)
        ELSE /\ threshold' = Some(r.threshold)
             /\ call' = Call("compute_threshold", method, custom_threshold, <<>>, <<>>,
                             Some(r.threshold), NoError)
             /\ UNCHANGED similarities

\* SelectThreshold resolving the default method whenever no argument is given
SelectThresholdAlwaysDefault(arg) ==
    IF arg # None THEN Val(arg)
    ELSE ResolveThreshold("mean_2std", None).threshold

\* SelectThreshold falling back to mean_1std
SelectThresholdOneStd(arg) ==
    IF arg # None THEN Val(arg)
    ELSE IF threshold = None THEN ResolveThreshold("mean_1std", None).threshold
    ELSE Val(threshold)

\* the threshold select_papers applies: the argument, else the current one,
\* else the one compute_threshold(method="mean_2std") sets
SelectThreshold(arg) ==
    IF arg # None THEN Val(arg)
    ELSE IF threshold = None THEN ResolveThreshold("mean_2std", None).threshold
    ELSE Val(threshold)

\* select_papers applying an explicit threshold without storing it over a
\* threshold that is already set
select_papers_not_stored(arg) ==
    IF similarities = None
    THEN Raise("select_papers", "", arg, MustComputeFirst)
    ELSE LET t == SelectThreshold(arg)
         IN  /\ threshold' = IF threshold = None THEN Some(t) ELSE threshold
             /\ call' = Call("select_papers", "", arg, <<>>, <<>>,
                             Some(GeMask(Val(similarities), t)), NoError)
             /\ UNCHANGED similarities

\* select_papers storing its argument before it checks that scores exist
select_papers_assign_first(arg) ==
    IF similarities = None
    THEN /\ call' = Call("select_papers", "", arg, <<>>, <<>>, None, MustComputeFirst)
         /\ threshold' = IF arg # None THEN arg ELSE threshold
         /\ UNCHANGED similarities
    ELSE LET t == SelectThreshold(arg)
         IN  /\ threshold' = Some(t)
             /\ call' = Call("select_papers", "", arg, <<>>, <<>>,
                             Some(GeMask(Val(similarities), t)), NoError)
             /\ UNCHANGED similarities

select_papers(arg) ==
    IF similarities = None
    THEN Raise("select_papers", "", arg, MustComputeFirst)
    ELSE LET t == SelectThreshold(arg)
         IN  /\ threshold' = Some(t)
             /\ call' = Call("select_papers", "", arg, <<>>, <<>>,
                             Some(GeMask(Val(similarities), t)), NoError)
             /\ UNCHANGED similarities

\* Statistics with the threshold-dependent entries defaulted instead of omitted
StatisticsDefaulted(xs, thr) ==
    LET t == IF thr # None THEN Val(thr) ELSE Zero
        selected_count == IF thr # None THEN CountTrue(GeMask(xs, t)) ELSE 0
    IN  [count |-> Len(xs), mean |-> Mean(xs), std |-> Std(xs),
         median |-> Median(xs), min |-> Min(xs), max |-> Max(xs),
         q25 |-> Percentile(xs, 25), q75 |-> Percentile(xs, 75),
         q90 |-> Percentile(xs, 90), q95 |-> Percentile(xs, 95),
         threshold |-> t, selected_count |-> selected_count,
         selected_percentage |-> FRatio(100 * selected_count, Len(xs))]

\* the dictionary get_statistics returns
Statistics(xs, thr) ==
    LET stats == [count |-> Len(xs), mean |-> Mean(xs), std |-> Std(xs),
                  median |-> Median(xs), min |-> Min(xs), max |-> Max(xs),
                  q25 |-> Percentile(xs, 25), q75 |-> Percentile(xs, 75),
                  q90 |-> Percentile(xs, 90), q95 |-> Percentile(xs, 95)]
    IN  IF thr # None
        THEN LET selected_count == CountTrue(GeMask(xs, Val(thr)))
             IN  stats @@ [threshold |-> Val(thr),
                           selected_count |-> selected_count,
                           selected_percentage |->
                               FRatio(100 * selected_count, Len(xs))]
        ELSE stats

\* get_statistics resolving the default threshold when none is set
get_statistics_resolving ==
    IF similarities = None
    THEN Raise("get_statistics", "", None, MustComputeFirst)
    ELSE LET thr == IF threshold # None THEN threshold
                    ELSE Some(PolicyThreshold("mean_2std", Val(similarities)))
         IN  /\ call' = Call("get_statistics", "", None, <<>>, <<>>,
                             Some(Statistics(Val(similarities), thr)), NoError)
             /\ threshold' = thr
             /\ UNCHANGED similarities

get_statistics ==
    IF similarities = None
    THEN Raise("get_statistics", "", None, MustComputeFirst)
    ELSE /\ call' = Call("get_statistics", "", None, <<>>, <<>>,
                         Some(Statistics(Val(similarities), threshold)), NoError)
         /\ UNCHANGED <<similarities, threshold>>

ComputeSimilarities ==
    /\ \E X \in PaperEmbeddings, y \in ReferenceEmbeddings : compute_similarities(X, y)
    /\ UNCHANGED setter

\* compute_threshold assigns self.threshold whenever it returns
ComputeThreshold ==
    /\ \E args \in ThresholdCalls : compute_threshold(args[1], args[2])
    /\ setter' = IF call'.err = NoError
                 THEN Some(<<call'.op, call'.method, call'.arg>>) ELSE setter

\* select_papers assigns self.threshold when it is given one, or when none is set
SelectPapers ==
    /\ \E arg \in OptionalThresholds : select_papers(arg)
    /\ setter' = IF call'.err = NoError /\ (call'.arg # None \/ threshold = None)
                 THEN Some(<<call'.op, call'.method, call'.arg>>) ELSE setter

GetStatistics ==
    /\ get_statistics
    /\ UNCHANGED setter

Next == ComputeSimilarities \/ ComputeThreshold \/ SelectPapers \/ GetStatistics

Spec == Init /\ [][Next]_vars

\* the selector right after compute_similarities returned a drawn score vector
InitScores ==
    /\ similarities \in {Some(xs) : xs \in ScoreVectors}
    /\ threshold = None
    /\ call = Call("compute_similarities", "", None, <<>>, <<>>, similarities, NoError)
    /\ setter = None

NextScores == ComputeThreshold \/ SelectPapers \/ GetStatistics

SpecScores == InitScores /\ [][NextScores]_vars

---------------------------------------------------------------------------
(* The command surfaces: the command line (main.py) and POST /process
   (web/app.py).  Each run builds a fresh PaperSelector, scores the
   documents, resolves the threshold from the configuration, selects and
   reports; the variables hold the selector of the latest run and `call`
   its configuration and outcome. *)

\* argparse rejecting a --threshold-method outside its choices
InvalidChoice == "invalid choice"

\* the embeddings of a run: the embedder gives documents and reference the
\* same dimension
SurfaceDocuments ==
    {<<Vec(<<1, 2>>)>>, <<Vec(<<1, 2>>), Vec(<<0, 0>>)>>,
     <<Vec(<<1, 2>>), Vec(<<2, 1>>)>>, <<Vec(<<2, 1>>), Vec(<<1, 2>>)>>}
SurfaceEmbeddings == {<<X, Vec(<<2, 1>>)>> : X \in SurfaceDocuments}

\* the configurations of a run: the threshold method and the optional
\* threshold value
SurfaceConfigs == MethodArgs \X OptionalThresholds

\* what a run that completes reports
Report(sims, t) == [threshold |-> t, selected |-> GeMask(sims, t)]

\* a run stopped by an error after scoring
Rejected(op, method, arg, X, y, sims, err) ==
    /\ similarities' = Some(sims)
    /\ threshold' = None
    /\ setter' = None
    /\ call' = Call(op, method, arg, X, y, None, err)

\* a run that went through: select_papers(threshold) stored the threshold
Completed(op, method, arg, X, y, sims, t) ==
    /\ similarities' = Some(sims)
    /\ threshold' = Some(t)
    /\ setter' = Some(<<"select_papers", "", Some(t)>>)
    /\ call' = Call(op, method, arg, X, y, Some(Report(sims, t)), NoError)

\* main(): parse_args restricts --threshold-method to the six methods; a
\* given --threshold selects the custom method
main(threshold_method, arg_threshold, X, y) ==
    IF threshold_method \notin Methods
    THEN /\ similarities' = None
         /\ threshold' = None
         /\ setter' = None
         /\ call' = Call("main", threshold_method, arg_threshold, <<>>, <<>>,
                         None, InvalidChoice)
    ELSE LET sims == CosineSimilarity(X, y)
             r == IF arg_threshold # None
                  THEN ResolveThresholdOn(Some(sims), "custom", arg_threshold)
                  ELSE ResolveThresholdOn(Some(sims), threshold_method, None)
         IN  IF r.err # NoError
             THEN Rejected("main", threshold_method, arg_threshold, X, y, sims, r.err)
             ELSE Completed("main", threshold_method, arg_threshold, X, y, sims,
                            r.threshold)

\* process_papers(): threshold_method and custom_threshold are read from the
\* request as they come; a given custom_threshold selects the custom method
process_papers(threshold_method, custom_threshold, X, y) ==
    LET sims == CosineSimilarity(X, y)
        r == IF custom_threshold # None
             THEN ResolveThresholdOn(Some(sims), "custom", custom_threshold)
             ELSE ResolveThresholdOn(Some(sims), threshold_method, None)
    IN  IF r.err # NoError
        THEN Rejected("process_papers", threshold_method, custom_threshold, X, y,
                      sims, r.err)
        ELSE Completed("process_papers", threshold_method, custom_threshold, X, y,
                       sims, r.threshold)

Main ==
    \E cfg \in SurfaceConfigs, emb \in SurfaceEmbeddings :
        main(cfg[1], cfg[2], emb[1], emb[2])

ProcessPapers ==
    \E cfg \in SurfaceConfigs, emb \in SurfaceEmbeddings :
        process_papers(cfg[1], cfg[2], emb[1], emb[2])

NextSurface == Main \/ ProcessPapers

SpecSurface == Init /\ [][NextSurface]_vars

---------------------------------------------------------------------------
(* save_selected_papers (utils.py): the scores are joined onto a copy of the
   record table, the rows of the mask are kept and sorted by score, highest
   first, and written to the output file.  `call` holds the arguments and,
   as the return value, the rows written and the caller's table after the
   call. *)

LengthMismatch == "Length of values does not match length of index"

\* the record tables a run loads: one row per paper, in input order
Tables ==
    {<<[title |-> "A"], [title |-> "B"]>>,
     <<[title |-> "A"], [title |-> "B"], [title |-> "C"]>>}

\* score arrays and masks of the given length
ScoreArrays(n) == [1..n -> ScoreValues]
Masks(n) == [1..n -> BOOLEAN]

\* the arguments of a call: arrays of 2 entries with either table (too short
\* for the table of 3 rows), and arrays of 3 entries with the table of 3 rows
SaveCalls ==
    {[df |-> df, similarities |-> sc, selected |-> m] :
        df \in Tables, sc \in ScoreArrays(2), m \in Masks(2)}
    \cup {[df |-> df, similarities |-> sc, selected |-> m] :
             df \in {t \in Tables : Len(t) = 3},
             sc \in ScoreArrays(3), m \in Masks(3)}

\* df_output['similarity_score'] = similarities
WithScores(df, scores) ==
    [i \in 1..Len(df) |-> df[i] @@ [similarity_score |-> scores[i]]]

\* the rows of the mask, in input order
RECURSIVE KeptRowsFrom(_, _, _)
KeptRowsFrom(rows, selected, i) ==
    IF i > Len(rows) THEN <<>>
    ELSE (IF selected[i] THEN <<rows[i]>> ELSE <<>>)
         \o KeptRowsFrom(rows, selected, i + 1)

\* SelectedRows with the scores attached after the filter, by position
SelectedRowsScoresByPosition(df, scores, selected) ==
    LET kept == KeptRowsFrom(df, selected, 1)
    IN  [i \in 1..Len(kept) |-> kept[i] @@ [similarity_score |-> scores[i]]]

\* df_output[selected]: the rows of the mask, in input order, with their scores
SelectedRows(df, scores, selected) ==
    KeptRowsFrom(WithScores(df, scores), selected, 1)

\* sort_values('similarity_score', ascending=False): the orders the sort can
\* leave the rows in; rows of equal score come in either order (the default
\* sort kind is not stable)
SortValuesDescending(rows) ==
    LET n == Len(rows)
        perms == {f \in [1..n -> 1..n] : \A i, j \in 1..n : i # j => f[i] # f[j]}
    IN  {[i \in 1..n |-> rows[f[i]]] : f \in
            {g \in perms : \A i \in 1..n : i < n =>
                FGe(rows[g[i]].similarity_score, rows[g[i + 1]].similarity_score)}}

save_selected_papers(df, scores, selected) ==
    IF Len(scores) # Len(df) \/ Len(selected) # Len(df)
    THEN /\ call' = Call("save_selected_papers", "",
                         Some([df |-> df, similarities |-> scores,
                               selected |-> selected]),
                         <<>>, <<>>, None, LengthMismatch)
         /\ UNCHANGED <<similarities, threshold, setter>>
    ELSE \E df_selected \in SortValuesDescending(SelectedRows(df, scores, selected)) :
             /\ call' = Call("save_selected_papers", "",
                             Some([df |-> df, similarities |-> scores,
                                   selected |-> selected]),
                             <<>>, <<>>,
                             Some([csv |-> df_selected, df |-> df]), NoError)
             /\ UNCHANGED <<similarities, threshold, setter>>

SaveSelectedPapers ==
    \E c \in SaveCalls : save_selected_papers(c.df, c.similarities, c.selected)

NextSave == SaveSelectedPapers

SpecSave == Init /\ [][NextSave]_vars

---------------------------------------------------------------------------
(* Properties *)

\* a >= b as real numbers, read off the normalised mantissas and exponents
ExactGe(a, b) ==
    IF a[1] = 0 THEN b[1] <= 0
    ELSE IF b[1] = 0 THEN a[1] > 0
    ELSE IF Sgn(a[1]) # Sgn(b[1]) THEN a[1] > 0
    ELSE IF a[1] > 0 THEN a[2] > b[2] \/ (a[2] = b[2] /\ a[1] >= b[1])
    ELSE a[2] < b[2] \/ (a[2] = b[2] /\ a[1] >= b[1])

\* the number of scores that are >= t as real numbers
ExactCount(xs, t) == Cardinality({i \in 1..Len(xs) : ExactGe(xs[i], t)})

Returned(op) == call.op = op /\ call.err = NoError

SelectorOps == {"compute_threshold", "select_papers", "get_statistics"}

\* C1: the mask select_papers(t) returns for an explicit threshold t has one
\* entry per score, and entry i is true exactly when score i >= t; a score
\* equal to t is selected.
C1_SelectionConsistency ==
    (Returned("select_papers") /\ call.arg # None) =>
        LET mask == Val(call.ret)
            scores == Val(similarities)
        IN  /\ Len(mask) = Len(scores)
            /\ \A i \in 1..Len(scores) :
                   mask[i] <=> ExactGe(scores[i], Val(call.arg))

\* select_papers(0.2) returned a mask that selects a score equal to 0.2 and
\* rejects another score
C1_Witness ==
    /\ Returned("select_papers")
    /\ call.arg = Some(Dec(2))
    /\ \E i, j \in 1..Len(Val(similarities)) :
           /\ Val(similarities)[i] = Dec(2)
           /\ Val(call.ret)[i]
           /\ ~Val(call.ret)[j]

\* C2: on a selector without scores, compute_threshold, select_papers and
\* get_statistics each raise the "Must compute similarities first" error
\* (the specification's PrecursorMissingError), whatever their arguments, and
\* leave the selector without scores and without threshold.
C2_PrecursorMissing ==
    [][(similarities = None /\ call'.op \in SelectorOps) =>
           /\ call'.err = MustComputeFirst
           /\ call'.ret = None
           /\ similarities' = None
           /\ threshold' = None]_vars

\* select_papers was called with an explicit threshold on a fresh selector
C2_Witness ==
    /\ similarities = None
    /\ threshold = None
    /\ call.op = "select_papers"
    /\ call.arg # None
    /\ call.err = MustComputeFirst

BaseFields ==
    {"count", "mean", "std", "median", "min", "max", "q25", "q75", "q90", "q95"}
ThresholdFields == {"threshold", "selected_count", "selected_percentage"}

\* C3: get_statistics called before any compute_threshold or select_papers
\* call has returned omits threshold, selected_count and selected_percentage;
\* called after one has returned it includes them, and selected_count is the
\* number of scores >= the current threshold.
C3_StatisticsOmission ==
    Returned("get_statistics") =>
        LET stats == Val(call.ret)
        IN  IF setter = None
            THEN DOMAIN stats = BaseFields
            ELSE /\ DOMAIN stats = BaseFields \cup ThresholdFields
                 /\ threshold # None
                 /\ stats.selected_count =
                        ExactCount(Val(similarities), Val(threshold))

\* get_statistics returned after a threshold was set, with some but not all
\* scores selected
C3_Witness ==
    /\ Returned("get_statistics")
    /\ setter # None
    /\ "selected_count" \in DOMAIN Val(call.ret)
    /\ Val(call.ret).selected_count > 0
    /\ Val(call.ret).selected_count < Val(call.ret).count

\* the setter when select_papers was given the explicit threshold t
ExplicitSelect(t) == Some(<<"select_papers", "", Some(t)>>)

\* the setter when select_papers, given no threshold, found none set
FallbackSelect == Some(<<"select_papers", "", None>>)

\* C4: an explicit threshold t given to select_papers replaces whatever
\* threshold was set and stays the current threshold until a later call
\* assigns another one; every get_statistics call in between reports
\* threshold = t and the number of scores >= t as selected_count.
C4_ExplicitThresholdOverrides ==
    \A t \in ThresholdArgs :
        setter = ExplicitSelect(t) =>
            /\ threshold = Some(t)
            /\ Returned("get_statistics") =>
                   /\ Val(call.ret).threshold = t
                   /\ Val(call.ret).selected_count = ExactCount(Val(similarities), t)

\* get_statistics returned after select_papers(0.5) on the scores
\* [0.1, 0.5, 0.9, 0.3, 0.7], reporting three selected
C4_Witness ==
    /\ Returned("get_statistics")
    /\ setter = ExplicitSelect(Dec(5))
    /\ similarities = Some(MedianScenario)
    /\ Val(call.ret).threshold = Dec(5)
    /\ Val(call.ret).selected_count = 3

\* C5: select_papers called without a threshold while none is set leaves the
\* selector as compute_threshold("mean_2std") followed by select_papers does:
\* the current threshold is mean + 2 * std of the scores, and the mask
\* returned is score >= that value.
C5_LegacyFallback ==
    setter = FallbackSelect =>
        LET scores == Val(similarities)
            t == FAdd(Mean(scores), FMul(FInt(2), Std(scores)))
        IN  /\ threshold = Some(t)
            /\ Returned("select_papers") =>
                   /\ call.arg = None
                   /\ Val(call.ret) = [i \in 1..Len(scores) |-> ExactGe(scores[i], t)]

\* select_papers() returned on the scores [-0.5, 0.9], whose standard
\* deviation is not zero, with no threshold set before
C5_Witness ==
    /\ Returned("select_papers")
    /\ setter = FallbackSelect
    /\ similarities = Some(<<Dec(-5), Dec(9)>>)
    /\ Std(Val(similarities)) # Zero
    /\ Val(call.ret) = <<FALSE, FALSE>>

\* C6: with scores present, compute_threshold("custom") without a custom
\* value raises the "custom_threshold must be provided" error (the
\* specification's MissingArgumentError) and leaves the scores and the
\* current threshold, absent or set, as they were.
C6_MissingCustomThreshold ==
    [][(call'.op = "compute_threshold" /\ call'.method = "custom" /\ call'.arg = None
            /\ similarities # None) =>
           /\ call'.err = CustomThresholdMissing
           /\ call'.ret = None
           /\ similarities' = similarities
           /\ threshold' = threshold]_vars

\* compute_threshold("custom") failed on a selector whose threshold was set
C6_Witness ==
    /\ call.op = "compute_threshold"
    /\ call.method = "custom"
    /\ call.arg = None
    /\ call.err = CustomThresholdMissing
    /\ threshold # None

\* C7: with scores present, compute_threshold with a method name outside
\* the six recognised ones raises the "Unknown method" error (the
\* specification's UnknownPolicyError), whether or not a custom value is
\* given, resolves no threshold and leaves the scores and the current
\* threshold as they were.
C7_UnknownMethod ==
    [][(call'.op = "compute_threshold" /\ call'.method \notin Methods
            /\ similarities # None) =>
           /\ call'.err = UnknownMethod
           /\ call'.ret = None
           /\ similarities' = similarities
           /\ threshold' = threshold]_vars

\* compute_threshold("mean_3std", 0.5) failed on a selector whose threshold
\* was set to another value
C7_Witness ==
    /\ call.op = "compute_threshold"
    /\ call.method = "mean_3std"
    /\ call.arg = Some(Dec(5))
    /\ call.err = UnknownMethod
    /\ threshold # None
    /\ threshold # Some(Dec(5))

\* the real number x in thousandths, rounded to the nearest integer
Milli(x) ==
    IF x[1] = 0 \/ -x[2] > 30 THEN 0
    ELSE IF x[2] >= 0 THEN x[1] * (2 ^ x[2]) * 1000
    ELSE (x[1] * 1000 + 2 ^ (-x[2] - 1)) \div (2 ^ (-x[2]))

IntLess(a, b) == a < b

RECURSIVE IntSumFrom(_, _)
IntSumFrom(X, i) == IF i > Len(X) THEN 0 ELSE X[i] + IntSumFrom(X, i + 1)

\* n times the value of the policy's formula on the integers X (scores in
\* thousandths), in exact integer arithmetic: mean + k * population standard
\* deviation, with the square root taken to the integer below
RefMeanStdTimesN(X, k) ==
    LET n == Len(X)
        S == IntSumFrom(X, 1)
        Q == IntSumFrom([i \in 1..n |-> (n * X[i] - S) * (n * X[i] - S)], 1)
    IN  S + k * Isqrt(Q \div n)

\* 100 times the q-th percentile of X by linear interpolation between the
\* two order statistics around position (n - 1) * q / 100
RefPercentileTimes100(X, q) ==
    LET n == Len(X)
        sorted == SortSeq(X, IntLess)
        lo == ((n - 1) * q) \div 100
        r == ((n - 1) * q) % 100
        A == sorted[lo + 1]
        B == sorted[IF lo + 2 <= n THEN lo + 2 ELSE n]
    IN  100 * A + (B - A) * r

\* |a - b| is at most 5 thousandths, both given times the factor f
Near(a, b, f) == Abs(a - b) <= 5 * f

\* the threshold t agrees with the formula of the method on the scores xs
RefPolicy(method, xs, t) ==
    LET X == [i \in 1..Len(xs) |-> Milli(xs[i])]
        n == Len(xs)
        T == Milli(t)
    IN  CASE method = "mean_2std" -> Near(n * T, RefMeanStdTimesN(X, 2), n)
          [] method = "mean_1std" -> Near(n * T, RefMeanStdTimesN(X, 1), n)
          [] method = "median" -> Near(100 * T, RefPercentileTimes100(X, 50), 100)
          [] method = "percentile_75" -> Near(100 * T, RefPercentileTimes100(X, 75), 100)
          [] method = "percentile_90" -> Near(100 * T, RefPercentileTimes100(X, 90), 100)

\* the setter when compute_threshold(method, custom) returned
Computed(method, custom) == Some(<<"compute_threshold", method, custom>>)

AllEqual(xs) == \A i \in 1..Len(xs) : xs[i] = xs[1]

\* C9: when all scores are equal to one value c, compute_threshold with
\* mean_2std resolves the threshold to exactly c, and select_papers then
\* selects every score.
C9_ZeroVariance ==
    (similarities # None /\ AllEqual(Val(similarities))
        /\ setter = Computed("mean_2std", None)) =>
        /\ threshold = Some(Val(similarities)[1])
        /\ Returned("select_papers") =>
               \A i \in 1..Len(Val(similarities)) : Val(call.ret)[i]

IsZeroVector(v) == \A i \in 1..Len(v) : v[i] = Zero

\* the error the specification names for a zero-norm vector
DegenerateVectorError == "DegenerateVectorError"

\* C10: compute_similarities given an all-zero document row or an all-zero
\* reference of the documents' dimension raises DegenerateVectorError,
\* returns nothing and so yields no score for that row.
C10_DegenerateVectorRejected ==
    (call.op = "compute_similarities" /\ call.docs # <<>>
        /\ Len(call.docs[1]) = Len(call.ref)
        /\ (IsZeroVector(call.ref) \/ \E i \in 1..Len(call.docs) : IsZeroVector(call.docs[i]))) =>
        /\ call.err = DegenerateVectorError
        /\ call.ret = None

\* C11: compute_similarities given a reference whose dimension differs from
\* the documents' column count raises the dimension error of the pairwise
\* check, returns no scores (the reference is neither cut nor padded), and
\* leaves the stored scores and the threshold as they were.
C11_DimensionMismatch ==
    [][(call'.op = "compute_similarities"
            /\ Len(call'.docs[1]) # Len(call'.ref)) =>
           /\ call'.err = IncompatibleDimension
           /\ call'.ret = None
           /\ similarities' = similarities
           /\ threshold' = threshold]_vars

\* compute_similarities failed on a reference of dimension 3 against
\* documents of dimension 2, on a selector holding scores and a threshold
C11_Witness ==
    /\ call.op = "compute_similarities"
    /\ Len(call.ref) = 3
    /\ Len(call.docs[1]) = 2
    /\ call.err = IncompatibleDimension
    /\ similarities # None
    /\ threshold # None

\* C12 as stated: once a threshold is set, no later operation changes it.
C12_ThresholdImmutable ==
    [][threshold # None => threshold' = threshold]_vars

\* C12 amended: once a threshold is set it is never unset, and only a
\* compute_threshold call that returns, or a select_papers call given an
\* explicit threshold, changes it; select_papers without argument,
\* get_statistics, compute_similarities and failing calls leave it alone.
C12_ThresholdChangedOnlyByAssignment ==
    [][threshold # None =>
           /\ threshold' # None
           /\ threshold' # threshold =>
                  /\ call'.err = NoError
                  /\ \/ call'.op = "compute_threshold"
                     \/ call'.op = "select_papers" /\ call'.arg # None]_vars

\* select_papers() returned, reusing the threshold that
\* compute_threshold("median") had set
C12_Witness ==
    /\ Returned("select_papers")
    /\ call.arg = None
    /\ setter = Computed("median", None)
    /\ threshold # None

\* C13: a threshold is present only if scores are present; scores and
\* threshold, once present, stay present; and the threshold becomes present
\* only by a compute_threshold or select_papers call that returns on a
\* selector holding scores.
C13_StateMachine ==
    /\ [](threshold # None => similarities # None)
    /\ [][/\ threshold' # None => similarities' # None
          /\ similarities # None => similarities' # None
          /\ threshold # None => threshold' # None
          /\ (threshold = None /\ threshold' # None) =>
                 /\ similarities # None
                 /\ call'.op \in {"compute_threshold", "select_papers"}
                 /\ call'.err = NoError]_vars

\* compute_similarities returned on a selector whose threshold was set: the
\* selector stays in ThresholdSet
C13_Witness ==
    /\ Returned("compute_similarities")
    /\ similarities # None
    /\ threshold # None

\* a > b as real numbers
ExactGt(a, b) == ExactGe(a, b) /\ a # b

\* C14: on every score vector the selector holds, the thresholds the
\* policies resolve satisfy percentile_90 >= percentile_75 >= median, and a
\* compute_threshold call with one of these methods returns a value in that
\* order with the values of the other two.
C14_ThresholdMonotonicity ==
    similarities # None =>
        LET xs == Val(similarities)
            p90 == PolicyThreshold("percentile_90", xs)
            p75 == PolicyThreshold("percentile_75", xs)
            med == PolicyThreshold("median", xs)
        IN  /\ ExactGe(p90, p75)
            /\ ExactGe(p75, med)
            /\ Returned("compute_threshold") =>
                   CASE call.method = "percentile_90" ->
                            ExactGe(Val(call.ret), p75)
                     [] call.method = "percentile_75" ->
                            ExactGe(p90, Val(call.ret)) /\ ExactGe(Val(call.ret), med)
                     [] call.method = "median" ->
                            ExactGe(p75, Val(call.ret))
                     [] OTHER -> TRUE

\* compute_threshold("percentile_90") returned on the scores
\* [0.1, 0.5, 0.9, 0.3, 0.7], where the three thresholds differ
C14_Witness ==
    /\ Returned("compute_threshold")
    /\ call.method = "percentile_90"
    /\ similarities = Some(MedianScenario)
    /\ ExactGt(Val(call.ret), PolicyThreshold("percentile_75", MedianScenario))
    /\ ExactGt(PolicyThreshold("percentile_75", MedianScenario),
               PolicyThreshold("median", MedianScenario))

\* the integer a float holds
IntOf(x) == Milli(x) \div 1000

RECURSIVE IntDotFrom(_, _, _)
IntDotFrom(v, w, i) ==
    IF i > Len(v) THEN 0 ELSE IntOf(v[i]) * IntOf(w[i]) + IntDotFrom(v, w, i + 1)

\* the score s is, to 5 thousandths, the cosine of the angle between the
\* integer vectors v and r, and 0 when one of them is the zero vector:
\* with M the score in thousandths, M * |v| * |r| = 1000 * (v . r)
RowScoreOk(v, r, s) ==
    LET dot == IntDotFrom(v, r, 1)
        vv == IntDotFrom(v, v, 1)
        rr == IntDotFrom(r, r, 1)
        M == Milli(s)
        lo == IF Abs(M) > 5 THEN Abs(M) - 5 ELSE 0
        hi == Abs(M) + 5
    IN  IF vv = 0 \/ rr = 0 THEN M = 0
        ELSE /\ lo * lo * vv * rr <= dot * dot * 1000000
             /\ dot * dot * 1000000 <= hi * hi * vv * rr
             /\ Abs(M) > 5 => Sgn(M) = Sgn(dot)

Reverse(xs) == [i \in 1..Len(xs) |-> xs[Len(xs) + 1 - i]]

\* C15: for n documents compute_similarities returns n scores, score i being
\* the cosine similarity of document i and the reference whatever the other
\* rows are, so that the rows in reverse order give the scores in reverse
\* order; the mask select_papers returns has one entry per score, entry i
\* telling whether score i reaches the threshold.
C15_OrderPreservation ==
    /\ Returned("compute_similarities") =>
           LET sims == Val(call.ret)
           IN  /\ Len(sims) = Len(call.docs)
               /\ \A i \in 1..Len(sims) :
                      RowScoreOk(call.docs[i], call.ref, sims[i])
               /\ CosineSimilarity(Reverse(call.docs), call.ref) = Reverse(sims)
    /\ Returned("select_papers") =>
           LET mask == Val(call.ret)
               sims == Val(similarities)
           IN  /\ Len(mask) = Len(sims)
               /\ \A i \in 1..Len(mask) :
                      mask[i] = ExactGe(sims[i], Val(threshold))

\* compute_similarities returned for the documents (1,2), (2,1) and the
\* reference (2,1): the lower score comes first, as the documents do
C15_Witness ==
    /\ Returned("compute_similarities")
    /\ call.docs = <<Vec(<<1, 2>>), Vec(<<2, 1>>)>>
    /\ call.ref = Vec(<<2, 1>>)
    /\ ExactGt(Val(call.ret)[2], Val(call.ret)[1])

\* C16: a get_statistics call, returning or failing, leaves the scores and
\* the threshold (set or not) as they were, and a get_statistics call that
\* directly follows another returns what the first returned.
C16_StatisticsPureRead ==
    [][call'.op = "get_statistics" =>
           /\ similarities' = similarities
           /\ threshold' = threshold
           /\ call.op = "get_statistics" =>
                  call'.ret = call.ret /\ call'.err = call.err]_vars

\* get_statistics returned on a selector holding scores and no threshold,
\* and no threshold is set afterwards
C16_Witness ==
    /\ Returned("get_statistics")
    /\ similarities # None
    /\ threshold = None
    /\ DOMAIN Val(call.ret) = BaseFields

\* C17: compute_threshold, select_papers and get_statistics, returning or
\* failing, never change the stored scores.
C17_ScoresReadOnly ==
    [][call'.op \in SelectorOps => similarities' = similarities]_vars

\* compute_threshold("median") returned on stored scores that are not in
\* ascending order, and they still are not
C17_Witness ==
    /\ Returned("compute_threshold")
    /\ call.method = "median"
    /\ similarities # None
    /\ Len(Val(similarities)) = 2
    /\ ExactGt(Val(similarities)[1], Val(similarities)[2])

\* C18 as stated: compute_similarities changes no state of the selector.
C18_ScoreNoSideEffects ==
    [][call'.op = "compute_similarities" =>
           similarities' = similarities /\ threshold' = threshold]_vars

\* C18 amended: a compute_similarities call that returns stores the vector
\* it returns as the selector's scores, replacing the previous ones, and
\* that is its only effect: the threshold is unchanged; a call that fails
\* changes nothing.
C18_ScoreStoresOnlyScores ==
    [][call'.op = "compute_similarities" =>
           /\ threshold' = threshold
           /\ IF call'.err = NoError
              THEN call'.ret # None /\ similarities' = call'.ret
              ELSE similarities' = similarities]_vars

\* compute_similarities returned two scores on a selector with a threshold
\* set, and the selector holds exactly the returned vector
C18_Witness ==
    /\ Returned("compute_similarities")
    /\ Len(Val(call.ret)) = 2
    /\ similarities = call.ret
    /\ threshold # None

\* C19: whatever the selector holds and whatever operations ran before, the
\* vector a compute_similarities call returns is the one value determined by
\* its documents and reference.
C19_Determinism ==
    Returned("compute_similarities") =>
        Val(call.ret) = CosineSimilarity(call.docs, call.ref)

\* compute_similarities returned for (2,1), (1,2) against (2,1) on a
\* selector whose threshold an earlier compute_threshold("median") had set
C19_Witness ==
    /\ Returned("compute_similarities")
    /\ call.docs = <<Vec(<<2, 1>>), Vec(<<1, 2>>)>>
    /\ call.ref = Vec(<<2, 1>>)
    /\ setter = Computed("median", None)

SurfaceOps == {"main", "process_papers"}

\* C20: a run of main or of POST /process configured with a threshold
\* method that is not recognised, or with the custom method and no threshold
\* value, ends as a rejected request.
C20_InvalidConfigurationRejected ==
    (/\ call.op \in SurfaceOps
     /\ \/ call.method \notin Methods
        \/ call.method = "custom" /\ call.arg = None) =>
        call.err # NoError

\* C21: the rows save_selected_papers writes are exactly the records whose
\* mask entry is true, one row each, every row carrying the score of its own
\* input index, in order of non-increasing score; the caller's table is the
\* same after the call.
C21_PersistedSelection ==
    Returned("save_selected_papers") =>
        LET a == Val(call.arg)
            csv == Val(call.ret).csv
            chosen == {i \in 1..Len(a.df) : a.selected[i]}
        IN  /\ Len(csv) = Cardinality(chosen)
            /\ {csv[k].title : k \in 1..Len(csv)} = {a.df[i].title : i \in chosen}
            /\ \A k \in 1..Len(csv) : \E i \in chosen :
                   /\ csv[k].title = a.df[i].title
                   /\ csv[k].similarity_score = a.similarities[i]
            /\ \A k \in 1..Len(csv) : k < Len(csv) =>
                   ExactGe(csv[k].similarity_score, csv[k + 1].similarity_score)
            /\ Val(call.ret).df = a.df
            /\ \A i \in 1..Len(a.df) : DOMAIN a.df[i] = {"title"}

\* save_selected_papers wrote papers C and A, in that order, of a table
\* A, B, C where B is not selected and C scores higher than A
C21_Witness ==
    /\ Returned("save_selected_papers")
    /\ Val(call.arg).selected = <<TRUE, FALSE, TRUE>>
    /\ ExactGt(Val(call.arg).similarities[3], Val(call.arg).similarities[1])
    /\ Len(Val(call.ret).csv) = 2
    /\ Val(call.ret).csv[1].title = "C"
    /\ Val(call.ret).csv[2].title = "A"

\* the latest call was a compute_similarities that returned on a selector
\* whose threshold was set
Rescored == Returned("compute_similarities") /\ threshold # None

\* C22: compute_similarities on a selector that has a threshold replaces the
\* scores and keeps the threshold; select_papers() and get_statistics called
\* next apply that kept threshold to the new scores.
C22_StaleThreshold ==
    [][/\ (call'.op = "compute_similarities" /\ call'.err = NoError
               /\ threshold # None) =>
              threshold' = threshold /\ similarities' = call'.ret
       /\ (Rescored /\ call'.op = "select_papers" /\ call'.arg = None) =>
              /\ call'.err = NoError
              /\ threshold' = threshold
              /\ \A i \in 1..Len(Val(similarities)) :
                     Val(call'.ret)[i] <=>
                         ExactGe(Val(similarities)[i], Val(threshold))
       /\ (Rescored /\ call'.op = "get_statistics") =>
              /\ call'.err = NoError
              /\ Val(call'.ret).threshold = Val(threshold)
              /\ Val(call'.ret).selected_count =
                     ExactCount(Val(similarities), Val(threshold))]_vars

\* select_papers() returned after a re-scoring, under the threshold that
\* compute_threshold("median") resolved from the previous scores, which is
\* not the median of the scores now held
C22_Witness ==
    /\ Returned("select_papers")
    /\ call.arg = None
    /\ setter = Computed("median", None)
    /\ Val(threshold) # PolicyThreshold("median", Val(similarities))

\* C23: select_papers() on a selector that has a threshold keeps it and
\* returns score >= threshold per entry; select_papers() or select_papers(t)
\* with the same t, called right after a select_papers that returned, returns
\* the same mask and leaves the same state.
C23_SelectIdempotent ==
    [][/\ (call'.op = "select_papers" /\ call'.arg = None
               /\ similarities # None /\ threshold # None) =>
              /\ call'.err = NoError
              /\ threshold' = threshold
              /\ similarities' = similarities
              /\ Len(Val(call'.ret)) = Len(Val(similarities))
              /\ \A i \in 1..Len(Val(similarities)) :
                     Val(call'.ret)[i] <=>
                         ExactGe(Val(similarities)[i], Val(threshold))
       /\ (Returned("select_papers") /\ call'.op = "select_papers"
               /\ (call'.arg = None \/ call'.arg = call.arg)) =>
              /\ call'.ret = call.ret
              /\ threshold' = threshold
              /\ similarities' = similarities]_vars

\* select_papers() returned on a selector whose threshold 0.2 an earlier
\* select_papers(0.2) had stored, and the threshold is still 0.2
C23_Witness ==
    /\ Returned("select_papers")
    /\ call.arg = None
    /\ setter = ExplicitSelect(Dec(2))
    /\ threshold = Some(Dec(2))

\* C24: on the same scores a select_papers call under a threshold at least
\* as high as the current one selects only documents whose score reaches the
\* current threshold (those select_papers selects under it); the mean_2std
\* threshold is at least the mean_1std threshold, and what select_papers()
\* selects under mean_2std reaches the mean_1std threshold.
C24_SelectionAntitone ==
    /\ [][(/\ call'.op = "select_papers" /\ call'.err = NoError
           /\ threshold # None
           /\ similarities' = similarities
           /\ ExactGe(Val(threshold'), Val(threshold))) =>
              \A i \in 1..Len(Val(similarities)) :
                  Val(call'.ret)[i] =>
                      ExactGe(Val(similarities)[i], Val(threshold))]_vars
    /\ [](similarities # None =>
             LET xs == Val(similarities)
                 t2 == PolicyThreshold("mean_2std", xs)
                 t1 == PolicyThreshold("mean_1std", xs)
             IN  /\ ExactGe(t2, t1)
                 /\ (Returned("select_papers")
                         /\ setter = Computed("mean_2std", None)) =>
                        \A i \in 1..Len(xs) :
                            Val(call.ret)[i] => ExactGe(xs[i], t1))

\* select_papers() returned under the mean_2std threshold of
\* [0.1, 0.5, 0.9, 0.3, 0.7] and selected nothing, where the lower mean_1std
\* threshold selects one document
C24_Witness ==
    /\ Returned("select_papers")
    /\ call.arg = None
    /\ setter = Computed("mean_2std", None)
    /\ similarities = Some(MedianScenario)
    /\ CountTrue(Val(call.ret)) = 0
    /\ ExactCount(MedianScenario, PolicyThreshold("mean_1std", MedianScenario)) = 1

\* the float x is a float nearest to the quotient num / den of two naturals:
\* |x - num / den| is at most half a unit in the last place of x
IsQuotient(x, num, den) ==
    IF x[1] = 0 THEN num = 0
    ELSE IF x[2] < 0
    THEN 2 * Abs(den * x[1] - num * (2 ^ (-x[2]))) <= den
    ELSE 2 * Abs(den * x[1] * (2 ^ x[2]) - num) <= den * (2 ^ x[2])

RankPolicies == {"median", "percentile_75", "percentile_90"}

\* the fields of the statistics, in the order the claim gives them
OrderedFields == <<"min", "q25", "median", "q75", "q90", "q95", "max">>

\* C25: on every score vector the selector holds, the median, percentile_75
\* and percentile_90 thresholds are reached by at least one score, and
\* select_papers() under one of them selects at least one document; the
\* statistics get_statistics returns satisfy
\* min <= q25 <= median <= q75 <= q90 <= q95 <= max and, with a threshold
\* set, 0 <= selected_count <= count and
\* selected_percentage = 100 * selected_count / count.
C25_SelectionBounds ==
    similarities # None =>
        LET xs == Val(similarities)
        IN  /\ \A m \in RankPolicies :
                   ExactCount(xs, PolicyThreshold(m, xs)) >= 1
            /\ (Returned("select_papers")
                    /\ \E m \in RankPolicies : setter = Computed(m, None)) =>
                   CountTrue(Val(call.ret)) >= 1
            /\ Returned("get_statistics") =>
                   LET stats == Val(call.ret)
                   IN  /\ \A k \in 1..(Len(OrderedFields) - 1) :
                              ExactGe(stats[OrderedFields[k + 1]],
                                      stats[OrderedFields[k]])
                       /\ stats.count = Len(xs)
                       /\ threshold # None =>
                              /\ stats.selected_count >= 0
                              /\ stats.selected_count <= stats.count
                              /\ IsQuotient(stats.selected_percentage,
                                            100 * stats.selected_count, stats.count)

\* get_statistics returned on [0.1, 0.5, 0.9, 0.3, 0.7] under the mean_2std
\* threshold, which is above the highest score and selects none; and some
\* score vector has its mean_1std threshold above its highest score
C25_Witness ==
    /\ Returned("get_statistics")
    /\ setter = Computed("mean_2std", None)
    /\ similarities = Some(MedianScenario)
    /\ Val(call.ret).selected_count = 0
    /\ ExactCount(MedianScenario, Val(threshold)) = 0
    /\ ExactGt(Val(call.ret).q95, Val(call.ret).q90)
    /\ \E xs \in ScoreVectors :
           ExactCount(xs, PolicyThreshold("mean_1std", xs)) = 0

====
